---- MODULE Spec2Model ----
(***************************************************************************)
(* Model of the sequential Mann-Kendall trend detector                     *)
(* (src/detectors/trend_mk.py, class MKDetector).                          *)
(*                                                                         *)
(* Representation.                                                         *)
(*  - A series is sampled once a day (class docstring, line 65); the       *)
(*    timestamp of an observation is its day number 0, 1, 2, ...           *)
(*  - A column is a sequence of integers.  Values are carried as exact     *)
(*    rationals with a common positive denominator per column: the rolling *)
(*    mean over P days is kept as the rolling sum (denominator P), the     *)
(*    exponential smoothing with level 1/5 over n points as integers with  *)
(*    denominator 5^(n-1).  The Mann-Kendall statistics only read the sign *)
(*    of differences and the equality of values of one column, which a     *)
(*    common positive denominator leaves unchanged.                        *)
(*  - NaN is the sentinel NaN; None is the sentinel string "None".         *)
(*  - Tau is the exact fraction [num, den];  a z-score is carried by its   *)
(*    sign and its square (a fraction), which is all the code reads of it. *)
(*  - The series handed to the detector has no missing value (the series   *)
(*    container guarantees numeric columns), so line 362 drops no column.  *)
(***************************************************************************)
EXTENDS Integers, Sequences, FiniteSets, TLC

\* ---------------------------------------------------------------- bounds
MaxLen == 9          \* longest series
MaxWindow == 5       \* largest window_size tried
MaxTraining == 8     \* largest training_days tried
MaxHalfZ == 8        \* _p_value is tried on z = k / 2 for k in -MaxHalfZ..MaxHalfZ
MaxProbeRows == 3    \* rows of the frames multivariate_MKtest is tried on
MaxEngineLen == 4    \* rows of the frames the univariate engine is tried on
MaxTopK == 3
MaxParameters == 2   \* elements of the parameters argument
MaxPoints == 3       \* points of the search space
MaxArmCount == 2     \* arm_count of one call
MaxTrials == 3       \* batch trials of one experiment         \* largest top_k tried

\* ------------------------------------------------------------- sentinels
NaN == -100000
NoneT == -1          \* training_days = None
NoneK == -1          \* top_k = None
None == "None"
NoneTau == [num |-> 0, den |-> 0]   \* a Tau of None
UnsetN == -2         \* a numeric attribute not assigned yet
UnsetS == "unset"    \* a string attribute not assigned yet
NoStatistics == [assigned |-> FALSE, rows |-> <<>>]   \* self.MK_statistics not assigned yet
NoTuner == [method |-> "none"]   \* no search method object

\* ------------------------------------------------------------------ state

VARIABLES
    data,           \* self.data as the frame of line 361
    multivariate,   \* self.multivariate after the constructor
    threshold,      \* self.threshold, in tenths
    alpha,          \* self.alpha, in thousandths
    window_size,    \* self.window_size  (UnsetN before the first run)
    training_days,  \* self.training_days
    direction,      \* self.direction
    freq,           \* self.freq
    MK_statistics,  \* self.MK_statistics: the stored Statistic Records
    last,           \* what the last detector() call did: outcome (how it ended),
                    \* stored (line 424 reached), returned (its change points),
                    \* given (timestamps handed to the preprocessor), anchors
                    \* (of the scan), evaluated (windows whose statistics it
                    \* computed), preprocessed (line 402 or 411 reached),
                    \* made_by (direction and training_days of the call that
                    \* assigned the current MK_statistics)
    probe,          \* a direct call of one engine function: input and output
    tuner           \* a search method object of the parameter tuning module
                    \* (NoTuner when there is none)

vars == <<data, multivariate, threshold, alpha, window_size, training_days,
          direction, freq, MK_statistics, last, probe, tuner>>

\* ------------------------------------------------- constructor defaults
DefaultThreshold == 8    \* threshold = 0.8 (line 93), in tenths
DefaultAlpha == 50       \* alpha = 0.05 (line 94), in thousandths

\* norm.ppf(1 - a / 2)^2 times 10^4 for the significance levels 0.01, 0.05, 0.1
ZCritSq10k(a) == IF a = 10 THEN 66349 ELSE IF a = 50 THEN 38415 ELSE 27055

\* ------------------------------------------------------------- utilities
Min(a, b) == IF a < b THEN a ELSE b
Max(a, b) == IF a > b THEN a ELSE b
SignNoZero(a) == IF a >= 0 THEN 1 ELSE -1
Sign(a) == IF a > 0 THEN 1 ELSE IF a < 0 THEN -1 ELSE 0


RECURSIVE SumSeq(_)
SumSeq(s) == IF s = <<>> THEN 0 ELSE Head(s) + SumSeq(Tail(s))

\* s[-w:] of Python: the last w elements, and the whole of s for w = 0
LastN(s, w) ==
    IF w = 0 \/ w >= Len(s) THEN s ELSE SubSeq(s, Len(s) - w + 1, Len(s))

\* s[w:] of Python
DropNFromWindow(s, w) == IF w > Len(s) THEN <<>> ELSE SubSeq(s, Max(w, 1), Len(s))

DropN(s, w) == IF w >= Len(s) THEN <<>> ELSE SubSeq(s, w + 1, Len(s))

\* ------------------------------------------------- Mann-Kendall engine

\* _drop_missing_values, 1-dim case (line 171): x[~isnan(x)]
RECURSIVE DropMissing(_)
DropMissing(x) ==
    IF x = <<>> THEN <<>>
    ELSE IF Head(x) = NaN THEN DropMissing(Tail(x))
         ELSE <<Head(x)>> \o DropMissing(Tail(x))

\* _mk_score (lines 176-183): sum of sign(x[j] - x[k]) over the pairs k < j
RECURSIVE PairSigns(_, _, _)
PairSigns(x, k, j) ==
    IF k >= Len(x) THEN 0
    ELSE SumSeq([i \in 1..(Len(x) - j + 1) |-> Sign(x[j + i - 1] - x[k])])
             + PairSigns(x, k + 1, k + 2)

MkScoreAdjacent(x) == SumSeq([i \in 1..(Len(x) - 1) |-> Sign(x[i + 1] - x[i])])

MkScore(x) == PairSigns(x, 1, 2)

\* Counter(x).values() (line 192): the size of each group of equal values
TieCounts(x) ==
    LET vals == {x[i] : i \in 1..Len(x)}
    IN  [v \in vals |-> Cardinality({i \in 1..Len(x) : x[i] = v})]

RECURSIVE SumOver(_, _)
SumOver(f, dom) ==
    IF dom = {} THEN 0
    ELSE LET v == CHOOSE u \in dom : TRUE
         IN  f[v] + SumOver(f, dom \ {v})

\* the tie term: np.sum(tp * (tp - 1) * (2 * tp + 5))
TieTermCountsSingles(x) ==
    LET tp == TieCounts(x)
        term == [v \in DOMAIN tp |-> tp[v] * (tp[v] + 1) * (2 * tp[v] + 5)]
    IN  SumOver(term, DOMAIN tp)

TieTerm(x) ==
    LET tp == TieCounts(x)
        term == [v \in DOMAIN tp |-> tp[v] * (tp[v] - 1) * (2 * tp[v] + 5)]
    IN  SumOver(term, DOMAIN tp)

\* _var_s (lines 185-196), times 18
VarS18(x) ==
    LET n == Len(x)
        unique_x == {x[i] : i \in 1..n}
    IN  IF n = Cardinality(unique_x)
        THEN n * (n - 1) * (2 * n + 5)
        ELSE n * (n - 1) * (2 * n + 5) + TieTerm(x)

\* _z_score (lines 198-206): z = (s -+ 1) / sqrt(var_s), or 0 for s = 0.
\* z is carried as its sign and its square sqnum / sqden.
ZScoreNoZeroCase(s, var18) ==
    IF s > 0 THEN [sgn |-> Sign(s - 1), sqnum |-> (s - 1) * (s - 1) * 18, sqden |-> var18]
    ELSE [sgn |-> Sign(s + 1), sqnum |-> (s + 1) * (s + 1) * 18, sqden |-> var18]

ZScore(s, var18) ==
    IF s > 0 THEN [sgn |-> Sign(s - 1), sqnum |-> (s - 1) * (s - 1) * 18, sqden |-> var18]
    ELSE IF s = 0 THEN [sgn |-> 0, sqnum |-> 0, sqden |-> 1]
    ELSE [sgn |-> Sign(s + 1), sqnum |-> (s + 1) * (s + 1) * 18, sqden |-> var18]

\* abs(z) > norm.ppf(1 - alpha / 2)  (line 211)
Significant(z) == z.sqnum * 10000 > ZCritSq10k(alpha) * z.sqden

\* abs(z) >= g / 100
AbsZAtLeast(z, g) == z.sqnum * 10000 >= g * g * z.sqden

\* 2 * (1 - norm.cdf(abs(z))) (line 210) in thousandths, read off the normal
\* table at abs(z) = 0, 0.5, 1, 1.5, 1.96, 2.5, 3, 3.5 (the value at the
\* largest tabulated point not above abs(z))
PValue(z) ==
    IF AbsZAtLeast(z, 350) THEN 0
    ELSE IF AbsZAtLeast(z, 300) THEN 3
    ELSE IF AbsZAtLeast(z, 250) THEN 12
    ELSE IF AbsZAtLeast(z, 196) THEN 50
    ELSE IF AbsZAtLeast(z, 150) THEN 134
    ELSE IF AbsZAtLeast(z, 100) THEN 317
    ELSE IF AbsZAtLeast(z, 50) THEN 617
    ELSE IF z.sgn # 0 THEN 999
    ELSE 1000

\* Tau < -threshold and Tau > threshold on the fraction Tau (den > 0)
TauBelow(Tau) == Tau.num * 10 < (0 - threshold) * Tau.den
TauAbove(Tau) == Tau.num * 10 > threshold * Tau.den

\* _p_value (lines 208-220): the p-value and the trend label
PValueTrendNoThreshold(z, Tau) ==
    [p |-> PValue(z),
     trend |-> IF z.sgn < 0 /\ Significant(z) THEN "decreasing"
               ELSE IF z.sgn > 0 /\ Significant(z) THEN "increasing"
               ELSE "no trend"]

PValueTrend(z, Tau) ==
    LET p == PValue(z)
        h == Significant(z)
        trend == IF z.sgn < 0 /\ h /\ TauBelow(Tau) THEN "decreasing"
                 ELSE IF z.sgn > 0 /\ h /\ TauAbove(Tau) THEN "increasing"
                 ELSE "no trend"
    IN  [p |-> p, trend |-> trend]

\* ------------------------------------------------------ engine, one window
\* A frame is [index |-> the timestamps, cols |-> one sequence per column];
\* an engine call returns [err |-> "ok", ...] or [err |-> the exception].

\* _preprocessing (lines 149-166): the last window_size rows of every column
\* (the whole frame for window_size = 0), flattened when there is one column
Preprocessing(ts, w) ==
    [x    |-> [i \in 1..Len(ts.cols) |-> LastN(ts.cols[i], w)],
     c    |-> Len(ts.cols),
     flat |-> Len(ts.cols) = 1]

\* s / (0.5 * n * (n - 1)) (lines 250, 287-291) as a fraction
DenominatorLinear(n) == n - 1
Denominator(n) == (n * (n - 1)) \div 2
TauOf(s, den) == [num |-> s, den |-> den]

\* MKtest (lines 235-255).  With n < 2 the score is the int 0 and the
\* division of line 250 raises ZeroDivisionError.
MKtest(ts, w) ==
    LET pre == Preprocessing(ts, w)
        x == DropMissing(pre.x[1])
        n == Len(x)
        s == MkScore(x)
        var18 == VarS18(x)
        z == ZScore(s, var18)
        Tau == TauOf(s, Denominator(n))
        pt == PValueTrend(z, Tau)
    IN  IF n < 2 THEN [err |-> "ZeroDivisionError"]
        ELSE [err |-> "ok",
              rec |-> [ds |-> ts.index[Len(ts.index)], trend_direction |-> pt.trend,
                       p |-> pt.p, Tau |-> Tau]]

\* the loop body of multivariate_MKtest (lines 284-299) for column i
ColumnStat(x_i) ==
    LET xi == DropMissing(x_i)
        n == Len(xi)
        s_i == MkScore(xi)
        var18_i == VarS18(xi)
        denominator_i == Denominator(n)
        Tau_i == TauOf(s_i, denominator_i)
    IN  [s |-> s_i, var18 |-> var18_i, denominator |-> denominator_i,
         Tau |-> IF denominator_i = 0 THEN NoneTau ELSE Tau_i,
         trend |-> IF denominator_i = 0 THEN None
                   ELSE PValueTrend(ZScore(s_i, var18_i), Tau_i).trend]

\* the product of a sequence of numbers
RECURSIVE ProdSeq(_)
ProdSeq(q) == IF q = <<>> THEN 1 ELSE Head(q) * ProdSeq(Tail(q))

MultivariateMKtestMeanTau(ts, w) ==
    LET pre == Preprocessing(ts, w)
        stat == [i \in 1..pre.c |-> ColumnStat(pre.x[i])]
        s == SumSeq([i \in 1..pre.c |-> stat[i].s])
        var18 == SumSeq([i \in 1..pre.c |-> stat[i].var18])
        dens == [i \in 1..pre.c |-> stat[i].denominator]
        Tau == TauOf(SumSeq([i \in 1..pre.c |->
                         stat[i].s * ProdSeq([j \in 1..pre.c |-> IF j = i THEN 1 ELSE dens[j]])]),
                     pre.c * ProdSeq(dens))
        pt == PValueTrend(ZScore(s, var18), Tau)
    IN  IF pre.flat THEN [err |-> "IndexError"]
        ELSE IF SumSeq(dens) = 0 THEN [err |-> "ZeroDivisionError"]
        ELSE [err |-> "ok",
              rec |-> [ds |-> ts.index[Len(ts.index)],
                       trend_direction |-> [metrics |-> [i \in 1..pre.c |-> stat[i].trend],
                                            overall |-> pt.trend],
                       p |-> pt.p,
                       Tau |-> [metrics |-> [i \in 1..pre.c |-> stat[i].Tau],
                                overall |-> Tau]]]

\* multivariate_MKtest (lines 270-310).  A flattened window (one column) makes
\* x[:, i] raise IndexError; a pooled denominator of 0 makes line 305 raise
\* ZeroDivisionError (the pooled score is then the int 0).
MultivariateMKtest(ts, w) ==
    LET pre == Preprocessing(ts, w)
        stat == [i \in 1..pre.c |-> ColumnStat(pre.x[i])]
        s == SumSeq([i \in 1..pre.c |-> stat[i].s])
        var18 == SumSeq([i \in 1..pre.c |-> stat[i].var18])
        denominator == SumSeq([i \in 1..pre.c |-> stat[i].denominator])
        Tau == TauOf(s, denominator)
        pt == PValueTrend(ZScore(s, var18), Tau)
    IN  IF pre.flat THEN [err |-> "IndexError"]
        ELSE IF denominator = 0 THEN [err |-> "ZeroDivisionError"]
        ELSE [err |-> "ok",
              rec |-> [ds |-> ts.index[Len(ts.index)],
                       trend_direction |-> [metrics |-> [i \in 1..pre.c |-> stat[i].trend],
                                            overall |-> pt.trend],
                       p |-> pt.p,
                       Tau |-> [metrics |-> [i \in 1..pre.c |-> stat[i].Tau],
                                overall |-> Tau]]]

\* runDetector (lines 322-328)
RunDetector(ts, w, multi) ==
    IF multi THEN MultivariateMKtest(ts, w) ELSE MKtest(ts, w)

\* ------------------------------------------------------------ preprocessor

\* the seasonal period of line 122
Period(f) == IF f = "weekly" THEN 7 ELSE IF f = "monthly" THEN 30 ELSE 365

\* ts.rolling(window = P).mean() on one column (line 123), as the rolling sum:
\* NaN until P values are there, and where the window holds a NaN
RollingPartial(col, P) ==
    [i \in 1..Len(col) |-> SumSeq(SubSeq(col, Max(1, i - P + 1), i))]

Rolling(col, P) ==
    [i \in 1..Len(col) |->
        IF i < P \/ \E k \in (i - P + 1)..i : col[k] = NaN THEN NaN
        ELSE SumSeq(SubSeq(col, i - P + 1, i))]

\* _remove_seasonality (lines 117-124)
RemoveSeasonality(ts, f) ==
    IF f = None THEN ts
    ELSE [index |-> ts.index,
          cols |-> [c \in 1..Len(ts.cols) |-> Rolling(ts.cols[c], Period(f))]]

\* ts[c].dropna() (line 130): the rows of column c that hold a value
RECURSIVE KeptRows(_, _)
KeptRows(col, i) ==
    IF i > Len(col) THEN <<>>
    ELSE IF col[i] = NaN THEN KeptRows(col, i + 1)
         ELSE <<i>> \o KeptRows(col, i + 1)

DropNaColumn(ts, c) ==
    LET pos == KeptRows(ts.cols[c], 1)
    IN  [index |-> [k \in 1..Len(pos) |-> ts.index[pos[k]]],
         vals  |-> [k \in 1..Len(pos) |-> ts.cols[c][pos[k]]]]

\* The predictions are fractions over a power of 5.  They are held exactly as
\* hi * Base + lo with 0 <= lo < Base
Base == 10000000

Limbs(h, l) == [hi |-> h + (l \div Base), lo |-> l % Base]
Scaled(a, k) == Limbs(a.hi * k, a.lo * k)
Plus(a, b) == Limbs(a.hi + b.hi, a.lo + b.lo)
Fifth(a) == [hi |-> a.hi \div 5, lo |-> ((a.hi % 5) * Base + a.lo) \div 5]
Below(a, b) == a.hi < b.hi \/ (a.hi = b.hi /\ a.lo < b.lo)

RECURSIVE PowerOfFive(_)
PowerOfFive(n) == IF n = 0 THEN Limbs(0, 1) ELSE Scaled(PowerOfFive(n - 1), 5)

\* SimpleExpSmoothing(...).fit(smoothing_level = 0.2, optimized = False)
\* .predict(first, last) (lines 133-137): the one-step-ahead predictions
\* F_1 = y_1, F_(t+1) = 0.2 y_t + 0.8 F_t, all times scale = 5^(n-1)
RECURSIVE FittedFrom(_, _, _, _)
FittedFrom(y, scale, t, prev) ==
    IF t > Len(y) THEN <<>>
    ELSE LET f == Fifth(Plus(Scaled(scale, y[t - 1]), Scaled(prev, 4)))
         IN  <<f>> \o FittedFrom(y, scale, t + 1, f)

Predictions(y) ==
    <<Scaled(PowerOfFive(Len(y) - 1), y[1])>>
        \o FittedFrom(y, PowerOfFive(Len(y) - 1), 2, Scaled(PowerOfFive(Len(y) - 1), y[1]))

\* The smoothed column.  The engine reads a column only through the signs of
\* differences (line 181) and the counts of equal values (line 188), so each
\* prediction is given by its rank among the column's predictions
RankedBy(F) ==
    [t \in 1..Len(F) |-> Cardinality({u \in 1..Len(F) : Below(F[u], F[t])})]

ExpSmooth(y) == RankedBy(Predictions(y))

\* The fit has a sum of squared errors of 0, whose logarithm raises
\* FloatingPointError under np.errstate(divide = "raise") (line 131), exactly
\* when every prediction equals its observation: when the column is constant
PerfectFit(y) == \A t \in 1..Len(y) : y[t] = y[1]

\* pd.concat(..., axis = 1) (lines 138-142): the columns on the union of their
\* indexes, NaN where a column has no row
SortedIndex(S) ==
    [k \in 1..Cardinality(S) |-> CHOOSE t \in S : Cardinality({u \in S : u < t}) = k - 1]

ConcatColumns(series) ==
    LET same == \A c \in 1..Len(series) : series[c].index = series[1].index
        idx == IF same THEN series[1].index
               ELSE SortedIndex(UNION {{s.index[i] : i \in 1..Len(s.index)} :
                                        s \in {series[c] : c \in 1..Len(series)}})
        At(sr, t) == IF \E i \in 1..Len(sr.index) : sr.index[i] = t
                     THEN sr.vals[CHOOSE i \in 1..Len(sr.index) : sr.index[i] = t]
                     ELSE NaN
    IN  [index |-> idx,
         cols  |-> [c \in 1..Len(series) |->
                       IF same THEN series[c].vals
                       ELSE [k \in 1..Len(idx) |-> At(series[c], idx[k])]]]

\* _smoothing (lines 126-147).  A perfect fit raises FloatingPointError and the
\* unsmoothed column is kept (line 142); a column left without any row makes
\* the fit raise an exception that is not caught.
Smoothing(ts) ==
    LET dropped == [c \in 1..Len(ts.cols) |-> DropNaColumn(ts, c)]
        smooth(sr) == IF PerfectFit(sr.vals) THEN sr
                      ELSE [index |-> sr.index, vals |-> ExpSmooth(sr.vals)]
    IN  IF \E c \in 1..Len(ts.cols) : Len(dropped[c].index) = 0
        THEN [err |-> "SmoothingError"]
        ELSE [err |-> "ok", ts |-> ConcatColumns([c \in 1..Len(ts.cols) |-> smooth(dropped[c])])]

\* ----------------------------------------------------------------- inputs

Directions == {"up", "down", "both", "sideways"}   \* "sideways" is not allowed
ValidDirections == {"up", "down", "both"}
Freqs == {None, "weekly", "monthly", "yearly"}
WindowSizes == 0..MaxWindow
TrainingDays == {NoneT} \cup 1..MaxTraining

\* the series the detector is built on
Shape(kind, L) ==
    [i \in 1..L |-> IF kind = "up" THEN i
                    ELSE IF kind = "down" THEN L + 1 - i
                    ELSE IF kind = "peak" THEN Min(i, L + 1 - i)
                    ELSE 1]

UnivariateData == {<<"up">>, <<"down">>, <<"peak">>, <<"flat">>}
MultivariateData == {<<"up", "down">>, <<"peak", "up">>, <<"down", "flat", "up">>}

Frame(kinds, L) ==
    [index |-> [i \in 1..L |-> i - 1],
     cols  |-> [c \in 1..Len(kinds) |-> Shape(kinds[c], L)]]

\* ---------------------------------------------------------------- scanner

\* ts.loc[:t, :] (line 418): the rows up to and including timestamp t
UpTo(ts, t) ==
    LET k == CHOOSE i \in 1..Len(ts.index) : ts.index[i] = t
    IN  [index |-> SubSeq(ts.index, 1, k),
         cols  |-> [c \in 1..Len(ts.cols) |-> SubSeq(ts.cols[c], 1, k)]]

\* ts.loc[(ts.index[-1] - timedelta(days = T)) : ts.index[-1], :] (lines 399-401):
\* label slicing keeps both ends
LastDays(ts, T) ==
    LET n == Len(ts.index)
        from == ts.index[n] - T
        k == Cardinality({i \in 1..n : ts.index[i] < from})
    IN  [index |-> SubSeq(ts.index, k + 1, n),
         cols  |-> [c \in 1..Len(ts.cols) |-> SubSeq(ts.cols[c], k + 1, n)]]

\* the loop of lines 415-422: one engine call per anchor, in order; an
\* exception of the engine ends the loop and the call
RECURSIVE Scan(_, _, _, _, _)
RECURSIVE ScanStep(_, _, _, _, _, _)
Scan(ts, anchors, w, multi, acc) ==
    IF anchors = <<>> THEN [err |-> "ok", recs |-> acc]
    ELSE ScanStep(ts, anchors, w, multi, acc,
                  RunDetector(UpTo(ts, Head(anchors)), w, multi))

ScanStep(ts, anchors, w, multi, acc, r) ==
    IF r.err # "ok" THEN [err |-> r.err, recs |-> acc]
    ELSE Scan(ts, Tail(anchors), w, multi, Append(acc, r.rec))

\* the overall label of a record (lines 440-441) or its label (lines 451-460)
LabelOf(rec, multi) ==
    IF multi THEN rec.trend_direction.overall ELSE rec.trend_direction

Selected(rec, d, multi) ==
    IF d = "down" THEN LabelOf(rec, multi) = "decreasing"
    ELSE IF d = "up" THEN LabelOf(rec, multi) = "increasing"
    ELSE LabelOf(rec, multi) # "no trend"

RECURSIVE SelectRows(_, _, _)
SelectRows(stats, d, multi) ==
    IF stats = <<>> THEN <<>>
    ELSE IF Selected(Head(stats), d, multi)
         THEN <<Head(stats)>> \o SelectRows(Tail(stats), d, multi)
         ELSE SelectRows(Tail(stats), d, multi)

\* get_MK_results (lines 433-462).  In the multivariate branch the frame built
\* from no record has no "overall" column, and line 441 raises KeyError.
GetMKResults(stats, d, multi) ==
    IF d \notin ValidDirections THEN [err |-> "ValueError: direction"]
    ELSE IF multi /\ stats = <<>> THEN [err |-> "KeyError"]
    ELSE [err |-> "ok", rows |-> SelectRows(stats, d, multi)]

\* _convert_detected_tps (lines 464-485); confidence = 1 - p in thousandths
ConvertDetectedTps(rows, multi) ==
    [k \in 1..Len(rows) |->
        [start_time |-> rows[k].ds, end_time |-> rows[k].ds,
         confidence |-> 1000 - rows[k].p,
         is_multivariate |-> multi,
         trend_direction |-> rows[k].trend_direction,
         Tau |-> rows[k].Tau]]

\* the length checks of lines 366-392
LengthCheckInclusive(n, w, T) ==
    IF T = NoneT
    THEN IF n <= w THEN "ValueError: window_size" ELSE "ok"
    ELSE IF T < w THEN "ValueError: training_days"
         ELSE IF n < T THEN "ValueError: length" ELSE "ok"

LengthCheck(n, w, T) ==
    IF T = NoneT
    THEN IF n < w THEN "ValueError: window_size" ELSE "ok"
    ELSE IF T < w THEN "ValueError: training_days"
         ELSE IF n < T THEN "ValueError: length" ELSE "ok"

\* What a call of detector() ends with: its outcome, whether it reached
\* line 424, what it stores and returns, how many windows it evaluated, the
\* timestamps handed to the preprocessor and the anchors of the scan.
NotRun ==
    [stored |-> FALSE, stats |-> <<>>, returned |-> <<>>, evaluated |-> 0,
     preprocessed |-> FALSE, given |-> <<>>, anchors |-> <<>>]

\* lines 424-431: store the statistics, then select and convert
FinishStoresSelected(used, anchors, recs, res, multi) ==
    [outcome |-> res.err, stored |-> TRUE,
     stats |-> IF res.err = "ok" THEN res.rows ELSE recs,
     returned |-> IF res.err = "ok" THEN ConvertDetectedTps(res.rows, multi) ELSE <<>>,
     evaluated |-> Len(recs), preprocessed |-> TRUE,
     given |-> used.index, anchors |-> anchors]

Finish(used, anchors, recs, res, multi) ==
    [outcome |-> res.err, stored |-> TRUE, stats |-> recs,
     returned |-> IF res.err = "ok" THEN ConvertDetectedTps(res.rows, multi) ELSE <<>>,
     evaluated |-> Len(recs), preprocessed |-> TRUE,
     given |-> used.index, anchors |-> anchors]

\* the end of the scan: an exception of the engine leaves detector() before
\* line 424
AfterScan(used, anchors, scan, multi, d) ==
    IF scan.err # "ok"
    THEN [NotRun EXCEPT !.preprocessed = TRUE, !.given = used.index,
                        !.evaluated = Len(scan.recs)]
         @@ [outcome |-> scan.err]
    ELSE Finish(used, anchors, scan.recs, GetMKResults(scan.recs, d, multi), multi)

\* lines 405-407 (one engine call on the preprocessed slice) and 415-422
AnchorScan(r) ==
    IF r.err = "ok" THEN [err |-> "ok", recs |-> <<r.rec>>]
    ELSE [err |-> r.err, recs |-> <<>>]

AfterSmoothing(used, sm, multi, w, T, d) ==
    IF sm.err # "ok"
    THEN [NotRun EXCEPT !.preprocessed = TRUE, !.given = used.index]
         @@ [outcome |-> sm.err]
    ELSE IF T # NoneT
    THEN AfterScan(used, <<sm.ts.index[Len(sm.ts.index)]>>,
                   AnchorScan(RunDetector(sm.ts, w, multi)), multi, d)
    ELSE AfterScan(used, DropN(sm.ts.index, w),
                   Scan(sm.ts, DropN(sm.ts.index, w), w, multi, <<>>), multi, d)

\* lines 397-412: the slice of the last training_days days (anchor point) or
\* the whole series, deseasonalized and smoothed once
Preprocessed(used, multi, w, T, d, f) ==
    AfterSmoothing(used, Smoothing(RemoveSeasonality(used, f)), multi, w, T, d)

\* the body of detector() after the assignments of lines 356-364
DetectorRun(ts, multi, w, T, d, f) ==
    IF LengthCheck(Len(ts.index), w, T) # "ok"
    THEN NotRun @@ [outcome |-> LengthCheck(Len(ts.index), w, T)]
    ELSE Preprocessed(IF T # NoneT THEN LastDays(ts, T) ELSE ts, multi, w, T, d, f)

\* ------------------------------------------------------------ top metrics

\* _metrics_analysis and the melts (lines 503-507, 569-582): one row per
\* metric and record, metric by metric, without the "overall" entry
MeltedRows(stats) ==
    [k \in 1..(Len(stats[1].Tau.metrics) * Len(stats)) |->
        [ds |-> stats[((k - 1) % Len(stats)) + 1].ds,
         metric |-> ((k - 1) \div Len(stats)) + 1,
         Tau |-> stats[((k - 1) % Len(stats)) + 1].Tau.metrics[((k - 1) \div Len(stats)) + 1],
         trend_direction |->
             stats[((k - 1) % Len(stats)) + 1].trend_direction.metrics[((k - 1) \div Len(stats)) + 1]]]

\* lines 514-516: the rows of the time point
RowsAt(rows, tp) == SelectSeq(rows, LAMBDA r : r.ds = tp)

\* Tau compared as fractions; abs(Tau) likewise
TauLess(a, b) == a.num * b.den < b.num * a.den
AbsTau(a) == [num |-> IF a.num < 0 THEN 0 - a.num ELSE a.num, den |-> a.den]

\* a sorts strictly before b (lines 519-530); a missing Tau sorts last
ComesBeforeRawTau(a, b, d) ==
    IF a = NoneTau THEN FALSE
    ELSE IF b = NoneTau THEN TRUE
    ELSE IF d = "down" THEN TauLess(a, b)
    ELSE TauLess(b, a)

ComesBefore(a, b, d) ==
    IF a = NoneTau THEN FALSE
    ELSE IF b = NoneTau THEN TRUE
    ELSE IF d = "down" THEN TauLess(a, b)
    ELSE IF d = "up" THEN TauLess(b, a)
    ELSE TauLess(AbsTau(b), AbsTau(a))

\* the orders sort_values may return (lines 519-530): the default sort is not
\* a stable one, and a descending sort reverses an ascending one or sorts the
\* reversed values depending on the build, so rows of equal Tau come in any
\* order; q[r] is the row that lands at position r
SortOrders(rows, d) ==
    {q \in Permutations(1..Len(rows)) :
        \A i, j \in 1..Len(rows) :
            i < j => ~ComesBefore(rows[q[j]].Tau, rows[q[i]].Tau, d)}

\* reindex by the sorted index
SortedRows(rows, q) == [r \in 1..Len(rows) |-> rows[q[r]]]

\* lines 532-537: .iloc[:top_k], or every row for top_k = None
FirstRows(rows, k) == IF k = NoneK THEN rows ELSE SubSeq(rows, 1, Min(k, Len(rows)))

\* the rows get_top_k_metrics sorts: those of the time point, which is the
\* final timestamp when training_days is set (lines 509-516)
TopKFrame(stats, multi, T, final, time_point) ==
    IF ~multi \/ stats.rows = <<>> THEN <<>>
    ELSE RowsAt(MeltedRows(stats.rows), IF T # NoneT THEN final ELSE time_point)

\* get_top_k_metrics (lines 493-537), q being the order the sort returns.
\* _metrics_analysis raises ValueError for a univariate detector,
\* AttributeError when no run has reached line 424, and KeyError when the
\* stored frame has no record (no "overall" column to drop); a direction
\* outside up, down, both leaves top_metrics unbound.
GetTopKMetrics(stats, multi, T, d, final, time_point, top_k, q) ==
    IF ~multi THEN [err |-> "ValueError: not multivariate"]
    ELSE IF ~stats.assigned THEN [err |-> "AttributeError"]
    ELSE IF stats.rows = <<>> THEN [err |-> "KeyError"]
    ELSE IF d \notin ValidDirections THEN [err |-> "UnboundLocalError"]
    ELSE [err |-> "ok",
          rows |-> FirstRows(SortedRows(TopKFrame(stats, multi, T, final, time_point), q),
                             top_k)]

\* ------------------------------------------------------------- operations

NoProbe == [fn |-> "none"]
NoRun == [direction |-> UnsetS, training_days |-> UnsetN]

\* MKDetector(data, multivariate = flag) with the default threshold and alpha
\* (lines 90-115): multivariate data turns the flag on, univariate data
\* leaves it as given
Init ==
    /\ \E L \in 1..MaxLen, kinds \in UnivariateData \cup MultivariateData,
          flag \in BOOLEAN :
          /\ data = Frame(kinds, L)
          /\ multivariate = IF Len(kinds) > 1 THEN TRUE ELSE flag
    /\ threshold = DefaultThreshold
    /\ alpha = DefaultAlpha
    /\ window_size = UnsetN
    /\ training_days = UnsetN
    /\ direction = UnsetS
    /\ freq = UnsetS
    /\ MK_statistics = NoStatistics
    /\ tuner = NoTuner
    /\ last = [op |-> "init"]
    /\ probe = NoProbe

\* detector(window_size = w, training_days = T, direction = d, freq = f)
\* (lines 330-431)
Detector(w, T, d, f) ==
    /\ LET r == DetectorRun(data, multivariate, w, T, d, f)
       IN  /\ window_size' = w
           /\ training_days' = T
           /\ direction' = d
           /\ freq' = f
           /\ MK_statistics' = IF r.stored THEN [assigned |-> TRUE, rows |-> r.stats]
                              ELSE MK_statistics
           /\ last' = [op |-> "detector",
                       made_by |-> IF r.stored THEN [direction |-> d, training_days |-> T]
                                   ELSE IF last.op = "init" THEN NoRun
                                   ELSE last.made_by] @@ r
    /\ UNCHANGED <<tuner, data, multivariate, threshold, alpha, probe>>

\* get_MK_statistics (lines 487-491)
GetMKStatistics == MK_statistics.rows

\* the first run of a detector, over every configuration
FirstRun ==
    /\ last.op = "init"
    /\ \E w \in WindowSizes, T \in TrainingDays, d \in Directions, f \in Freqs :
          Detector(w, T, d, f)

Next == FirstRun

Spec == Init /\ [][Next]_vars

\* ---------------------------------------------- direct calls of the engine

\* _p_value(z, Tau) on a grid: z = k / 2 and Tau = j / 10, for a detector
\* built with any of the thresholds and significance levels below
Thresholds == {0, 5, 8, 10}
Alphas == {10, 50, 100}
ZOfHalf(k) == [sgn |-> Sign(k), sqnum |-> k * k, sqden |-> 4]

InitPValue ==
    /\ data = Frame(<<"flat">>, 1)
    /\ multivariate = FALSE
    /\ threshold \in Thresholds
    /\ alpha \in Alphas
    /\ window_size = UnsetN
    /\ training_days = UnsetN
    /\ direction = UnsetS
    /\ freq = UnsetS
    /\ MK_statistics = NoStatistics
    /\ tuner = NoTuner
    /\ last = [op |-> "init"]
    /\ \E k \in (0 - MaxHalfZ)..MaxHalfZ, j \in -10..10 :
          probe = [fn |-> "_p_value", k |-> k, j |-> j, done |-> FALSE]

CallPValue ==
    /\ probe.fn = "_p_value"
    /\ ~probe.done
    /\ probe' = [fn |-> "_p_value", k |-> probe.k, j |-> probe.j, done |-> TRUE,
                 out |-> PValueTrend(ZOfHalf(probe.k), TauOf(probe.j, 10))]
    /\ UNCHANGED <<tuner, data, multivariate, threshold, alpha, window_size, training_days,
                   direction, freq, MK_statistics, last>>

SpecPValue == InitPValue /\ [][CallPValue]_vars

\* multivariate_MKtest(ts) on every two-column frame of up to MaxProbeRows rows
\* over ProbeValues, with self.window_size = 2 or MaxProbeRows
ProbeValues == {NaN, 1, 2, 3}
ProbeColumns(R) == [1..R -> ProbeValues]
ProbeWindows == {2, MaxProbeRows}

InitMultivariate ==
    /\ \E R \in 1..MaxProbeRows :
          \E a \in ProbeColumns(R), b \in ProbeColumns(R) :
              /\ data = [index |-> [i \in 1..R |-> i - 1], cols |-> <<a, b>>]
              /\ probe = [fn |-> "multivariate_MKtest", done |-> FALSE]
    /\ multivariate = TRUE
    /\ threshold = DefaultThreshold
    /\ alpha = DefaultAlpha
    /\ window_size \in ProbeWindows
    /\ training_days = UnsetN
    /\ direction = UnsetS
    /\ freq = UnsetS
    /\ MK_statistics = NoStatistics
    /\ tuner = NoTuner
    /\ last = [op |-> "init"]

CallMultivariate ==
    /\ probe.fn = "multivariate_MKtest"
    /\ ~probe.done
    /\ probe' = [fn |-> "multivariate_MKtest", done |-> TRUE,
                 out |-> MultivariateMKtest(data, window_size)]
    /\ UNCHANGED <<tuner, data, multivariate, threshold, alpha, window_size, training_days,
                   direction, freq, MK_statistics, last>>

SpecMultivariate == InitMultivariate /\ [][CallMultivariate]_vars

\* the univariate engine on every one-column frame of up to MaxEngineLen rows
\* over EngineValues, with self.window_size = 1 or MaxEngineLen: _mk_score,
\* _var_s and _z_score on the window MKtest reads (lines 235-236), and MKtest
\* itself; then the same on the frame with every value negated
EngineValues == {NaN, -2, -1, 1, 2}
EngineWindows == {1, MaxEngineLen}
NoCall == [called |-> FALSE]

\* x after lines 235-236 of MKtest
EngineInput(ts, w) == DropMissing(Preprocessing(ts, w).x[1])

EngineCall(ts, w) ==
    [called |-> TRUE,
     x      |-> EngineInput(ts, w),
     s      |-> MkScore(EngineInput(ts, w)),
     var18  |-> VarS18(EngineInput(ts, w)),
     tie    |-> TieTerm(EngineInput(ts, w)),
     z      |-> ZScore(MkScore(EngineInput(ts, w)), VarS18(EngineInput(ts, w))),
     res    |-> MKtest(ts, w)]

\* the frame with every value negated (a missing value stays missing)
Negated(ts) ==
    [index |-> ts.index,
     cols  |-> [c \in 1..Len(ts.cols) |->
                  [i \in 1..Len(ts.cols[c]) |->
                      IF ts.cols[c][i] = NaN THEN NaN ELSE 0 - ts.cols[c][i]]]]

InitEngine ==
    /\ \E R \in 1..MaxEngineLen :
          \E x \in [1..R -> EngineValues] :
              data = [index |-> [i \in 1..R |-> i - 1], cols |-> <<x>>]
    /\ probe = [fn |-> "MKtest", negated |-> FALSE, out |-> NoCall, before |-> NoCall]
    /\ multivariate = FALSE
    /\ threshold = DefaultThreshold
    /\ alpha \in Alphas
    /\ window_size \in EngineWindows
    /\ training_days = UnsetN
    /\ direction = UnsetS
    /\ freq = UnsetS
    /\ MK_statistics = NoStatistics
    /\ tuner = NoTuner
    /\ last = [op |-> "init"]

CallEngine ==
    /\ probe.fn = "MKtest"
    /\ ~probe.out.called
    /\ probe' = [probe EXCEPT !.out = EngineCall(data, window_size)]
    /\ UNCHANGED <<tuner, data, multivariate, threshold, alpha, window_size, training_days,
                   direction, freq, MK_statistics, last>>

NegateData ==
    /\ probe.fn = "MKtest"
    /\ probe.out.called
    /\ ~probe.negated
    /\ data' = Negated(data)
    /\ probe' = [fn |-> "MKtest", negated |-> TRUE, out |-> NoCall, before |-> probe.out]
    /\ UNCHANGED <<tuner, multivariate, threshold, alpha, window_size, training_days,
                   direction, freq, MK_statistics, last>>

NextEngine == CallEngine \/ NegateData

SpecEngine == InitEngine /\ [][NextEngine]_vars

\* get_top_k_metrics(time_point, top_k) on a detector, before or after a run
\* with window_size 2 or MaxWindow, on the whole series or with
\* training_days = 3, in any direction, without freq
TopKWindows == {2, MaxWindow}
TopKTraining == {NoneT, 3}
TopKs == {NoneK} \cup 0..MaxTopK

TopKRun ==
    /\ last.op = "init"
    /\ probe = NoProbe
    /\ \E w \in TopKWindows, T \in TopKTraining, d \in Directions : Detector(w, T, d, None)

CallTopK ==
    /\ probe = NoProbe
    /\ \E time_point \in {data.index[i] : i \in 1..Len(data.index)}, top_k \in TopKs :
          \E q \in SortOrders(TopKFrame(MK_statistics, multivariate, training_days,
                                         data.index[Len(data.index)], time_point),
                               direction) :
              probe' = [fn |-> "get_top_k_metrics", time_point |-> time_point,
                        top_k |-> top_k,
                        out |-> GetTopKMetrics(MK_statistics, multivariate, training_days,
                                               direction, data.index[Len(data.index)],
                                               time_point, top_k, q)]
    /\ UNCHANGED <<tuner, data, multivariate, threshold, alpha, window_size, training_days,
                   direction, freq, MK_statistics, last>>

NextTopK == TopKRun \/ CallTopK

SpecTopK == Init /\ [][NextTopK]_vars

\* detector() on the series of twenty daily values that rises from 1 to 10 and
\* falls back to 0, with a window of the series' length, one less or one more
ExampleSeries ==
    <<1, 2, 3, 4, 5, 6, 7, 8, 9, 10, 9, 8, 7, 6, 5, 4, 3, 2, 1, 0>>

ExampleFrame ==
    [index |-> [i \in 1..Len(ExampleSeries) |-> i - 1], cols |-> <<ExampleSeries>>]

ExampleWindows == (Len(ExampleSeries) - 1)..(Len(ExampleSeries) + 1)

InitExample ==
    /\ data = ExampleFrame
    /\ multivariate \in BOOLEAN
    /\ threshold = DefaultThreshold
    /\ alpha = DefaultAlpha
    /\ window_size = UnsetN
    /\ training_days = UnsetN
    /\ direction = UnsetS
    /\ freq = UnsetS
    /\ MK_statistics = NoStatistics
    /\ tuner = NoTuner
    /\ last = [op |-> "init"]
    /\ probe = NoProbe

ExampleRun ==
    /\ last.op = "init"
    /\ \E w \in ExampleWindows, T \in TrainingDays, d \in Directions, f \in Freqs :
          Detector(w, T, d, f)

SpecExample == InitExample /\ [][ExampleRun]_vars

\* any number of detector() calls on a detector of multivariate data of up
\* to MaxWindow + 1 points, with the configurations of TopKRun, then
\* get_top_k_metrics at the final timestamp
InitCalls == Init /\ Len(data.cols) > 1 /\ Len(data.index) <= MaxWindow + 1

AnyRun ==
    /\ probe = NoProbe
    /\ \E w \in TopKWindows, T \in TopKTraining, d \in Directions : Detector(w, T, d, None)

CallTopKAtEnd ==
    /\ probe = NoProbe
    /\ \E top_k \in {NoneK, 1} :
          \E q \in SortOrders(TopKFrame(MK_statistics, multivariate, training_days,
                                         data.index[Len(data.index)],
                                         data.index[Len(data.index)]),
                               direction) :
              probe' = [fn |-> "get_top_k_metrics",
                        time_point |-> data.index[Len(data.index)], top_k |-> top_k,
                        out |-> GetTopKMetrics(MK_statistics, multivariate, training_days,
                                               direction, data.index[Len(data.index)],
                                               data.index[Len(data.index)], top_k, q)]
    /\ UNCHANGED <<tuner, data, multivariate, threshold, alpha, window_size, training_days,
                   direction, freq, MK_statistics, last>>

NextCalls == AnyRun \/ CallTopKAtEnd

SpecCalls == InitCalls /\ [][NextCalls]_vars

\* -------------------------------------------------------- parameter tuning
\* src/parameter_tuning/time_series_parameter_tuning.py.  A search method
\* object is the record
\*   [method, err (how its constructor ended), parameters, outcome_constraints,
\*    search_space (created), exp (the Ax experiment: its metrics and batch
\*    trials), trial_data (self._trial_data), generated (the points the random
\*    model has handed out), evaluation_function]

\* The parameters argument is a list or another value; an element of the list
\* is a dict Ax accepts ("parameter"), a non-empty dict Ax rejects
\* ("malformed"), an empty dict ("empty") or not a dict ("other")
ElementKinds == {"parameter", "malformed", "empty", "other"}
NotAList == [isList |-> FALSE, items |-> <<>>]
ParameterArguments ==
    {NotAList} \cup {[isList |-> TRUE, items |-> it] :
                        it \in UNION {[1..n -> ElementKinds] : n \in 0..MaxParameters}}

\* validate_parameters_format (lines 150-178)
RECURSIVE ValidateItems(_, _)
ValidateItems(items, i) ==
    IF i > Len(items) THEN "ok"
    ELSE IF items[i] = "other" THEN "TypeError"
    ELSE IF items[i] = "empty" THEN "ValueError"
    ELSE ValidateItems(items, i + 1)

ValidateAcceptsEmptyDict(parameters) ==
    IF ~parameters.isList THEN "TypeError"
    ELSE IF Len(parameters.items) = 0 THEN "ValueError"
    ELSE IF \E i \in 1..Len(parameters.items) : parameters.items[i] = "other" THEN "TypeError"
    ELSE "ok"

ValidateParametersFormat(parameters) ==
    IF ~parameters.isList THEN "TypeError"
    ELSE IF Len(parameters.items) = 0 THEN "ValueError"
    ELSE ValidateItems(parameters.items, 1)

\* outcome constraints "metric <= bound" and "metric >= bound" (lines 123-130)
MetricNames == {"m1", "m2"}
Constraints ==
    [metric : MetricNames, op : {"LEQ", "GEQ"}, bound : {(MaxPoints + 1) \div 2}]
ConstraintLists ==
    {<<>>} \cup {<<c>> : c \in Constraints}
           \cup {q \in Constraints \X Constraints : q[1] # q[2]}

NoExperiment == [created |-> FALSE, metrics |-> <<>>, trials |-> <<>>]
NoData == [created |-> FALSE, rows |-> <<>>]

\* an object whose constructor raised err before line 122
NotConstructed(method, err) ==
    [method |-> method, err |-> err, parameters |-> <<>>, outcome_constraints |-> <<>>,
     search_space |-> FALSE, exp |-> NoExperiment, trial_data |-> NoData,
     generated |-> {}, evaluation_function |-> None]

\* TimeSeriesParameterTuning.__init__ (lines 109-148): validation first, then
\* the Ax parameters (parameter_from_json raises on a dict it rejects), the
\* constraints, the search space, the experiment and the empty trial data
BaseInit(method, parameters, outcome_constraints) ==
    IF ValidateParametersFormat(parameters) # "ok"
    THEN NotConstructed(method, ValidateParametersFormat(parameters))
    ELSE IF \E i \in 1..Len(parameters.items) : parameters.items[i] = "malformed"
    THEN NotConstructed(method, "parameter_from_json")
    ELSE [method |-> method, err |-> "ok", parameters |-> parameters.items,
          outcome_constraints |-> outcome_constraints, search_space |-> TRUE,
          exp |-> [created |-> TRUE, metrics |-> <<>>, trials |-> <<>>],
          trial_data |-> [created |-> TRUE, rows |-> <<>>],
          generated |-> {}, evaluation_function |-> None]

\* the points of the search space
SearchPoints == 1..MaxPoints

\* the evaluation function: it returns a number, a (mean, sem) tuple, a dict
\* of (mean, sem) per metric name, or something else ("text")
EvaluationFunctions == {"number", "tuple", "dict", "text"}
ObjectiveName == "objective"
DictKeys == <<"objective", "m1", "m2">>
Value(f, point, name) == IF f = "dict" /\ name = "m2" THEN MaxPoints + 1 - point ELSE point
Sem(f) == IF f = "number" THEN 0 ELSE 1

RECURSIVE Flatten(_)
Flatten(ss) == IF ss = <<>> THEN <<>> ELSE Head(ss) \o Flatten(Tail(ss))

\* evaluate_arm (lines 58-91): the records of one arm, as a list
EvaluateArm(name, arm, f) ==
    IF f = "dict"
    THEN [k \in 1..Len(DictKeys) |->
             [metric_name |-> DictKeys[k], arm_name |-> arm.name,
              mean |-> Value(f, arm.parameters, DictKeys[k]), sem |-> Sem(f)]]
    ELSE <<[metric_name |-> name, arm_name |-> arm.name,
            mean |-> Value(f, arm.parameters, name), sem |-> Sem(f)]>>

\* fetch_trial_data (lines 93-105) of the metric called name
FetchTrialData(name, trial, f) ==
    [r \in 1..Len(Flatten([a \in 1..Len(trial.arms) |-> EvaluateArm(name, trial.arms[a], f)])) |->
        Flatten([a \in 1..Len(trial.arms) |-> EvaluateArm(name, trial.arms[a], f)])[r]
            @@ [trial_index |-> trial.index]]

\* the metrics of the optimization config (lines 203-214): the objective and
\* the metrics of the constraints, one per name
RECURSIVE ConstraintMetrics(_, _)
ConstraintMetrics(ocs, seen) ==
    IF ocs = <<>> THEN <<>>
    ELSE IF Head(ocs).metric \in seen THEN ConstraintMetrics(Tail(ocs), seen)
    ELSE <<Head(ocs).metric>> \o ConstraintMetrics(Tail(ocs), seen \cup {Head(ocs).metric})

ConfigMetrics(ocs) == <<ObjectiveName>> \o ConstraintMetrics(ocs, {ObjectiveName})

\* Experiment.fetch_trials_data(trial_indices = [i]): every metric's records
TrialRecords(metrics, trial, f) ==
    Flatten([m \in 1..Len(metrics) |-> FetchTrialData(metrics[m], trial, f)])

\* the arms of the experiment, by name
ArmsOf(exp) ==
    {exp.trials[t].arms[a] : <<t, a>> \in
        {q \in (1..Len(exp.trials)) \X SearchPoints :
            q[2] <= Len(exp.trials[q[1]].arms)}}

\* Experiment.new_batch_trial(generator_run): an arm that has the parameters
\* of an arm of the experiment keeps that arm's name, a new one is named
\* after the trial and its position
ArmFor(exp, point, index, i) ==
    IF \E arm \in ArmsOf(exp) : arm.parameters = point
    THEN CHOOSE arm \in ArmsOf(exp) : arm.parameters = point
    ELSE [name |-> <<index, i - 1>>, parameters |-> point]

NewBatchTrial(exp, points) ==
    [index |-> Len(exp.trials), ran |-> FALSE,
     arms |-> [i \in 1..Len(points) |-> ArmFor(exp, points[i], Len(exp.trials), i)]]

\* the newest trial of lines 218-219: self._exp.trials[max(self._exp.trials)]
Oldest(exp) == exp.trials[1]

Newest(exp) == exp.trials[Len(exp.trials)]

\* lines 216-218: the new batch trial is added and the newest trial is run
WithNewTrial(exp, metrics, points) ==
    [created |-> TRUE, metrics |-> metrics,
     trials |-> Append(exp.trials, [NewBatchTrial(exp, points) EXCEPT !.ran = TRUE])]

\* line 219: the records of the newest trial are appended to the trial data;
\* an evaluation result of another kind raises the TypeError of line 80 there
Fetched(t, f, exp) ==
    IF f = "text"
    THEN [obj |-> [t EXCEPT !.evaluation_function = f, !.exp = exp], err |-> "TypeError"]
    ELSE [obj |-> [t EXCEPT !.evaluation_function = f, !.exp = exp,
                            !.trial_data.rows = t.trial_data.rows
                                \o TrialRecords(exp.metrics, Newest(exp), f)],
          err |-> "ok"]

\* generator_run_for_search_method (lines 183-219)
GeneratorRunForSearchMethod(t, f, points) ==
    Fetched(t, f, WithNewTrial(t.exp, ConfigMetrics(t.outcome_constraints), points))

\* Models.UNIFORM / Models.SOBOL(deduplicate = True).gen(n) (line 543): n
\* points the model has not handed out, or no run when fewer are left
RandomRuns(t, n) == {S \in SUBSET (SearchPoints \ t.generated) : Cardinality(S) = n}

\* the three constructors (lines 403-440, 463-527, 552-638).  The Bayesian
\* search runs its bootstrap trial in the constructor.
Methods == {"GridSearch", "RandomSearch", "BayesianOptSearch"}

Bootstrapped(t, f, S) ==
    IF GeneratorRunForSearchMethod([t EXCEPT !.generated = S], f, SortedIndex(S)).err = "ok"
    THEN GeneratorRunForSearchMethod([t EXCEPT !.generated = S], f, SortedIndex(S)).obj
    ELSE [GeneratorRunForSearchMethod([t EXCEPT !.generated = S], f, SortedIndex(S)).obj
             EXCEPT !.err = "TypeError"]

\* ------------------------------------------ parameter tuning: operations

NoDetector == [index |-> <<>>, cols |-> <<>>]

InitTuning ==
    /\ data = NoDetector
    /\ multivariate = FALSE
    /\ threshold = DefaultThreshold
    /\ alpha = DefaultAlpha
    /\ window_size = UnsetN
    /\ training_days = UnsetN
    /\ direction = UnsetS
    /\ freq = UnsetS
    /\ MK_statistics = NoStatistics
    /\ tuner = NoTuner
    /\ last = [op |-> "init"]
    /\ probe = NoProbe

\* GridSearch(...), RandomSearch(...) and BayesianOptSearch(...)
CreateSearchMethod ==
    /\ tuner = NoTuner
    /\ \E method \in Methods, parameters \in ParameterArguments,
          outcome_constraints \in ConstraintLists :
          /\ last' = [op |-> "create", method |-> method, parameters |-> parameters]
          /\ IF method = "BayesianOptSearch"
                /\ BaseInit(method, parameters, outcome_constraints).err = "ok"
             THEN \E f \in EvaluationFunctions, bootstrap_size \in 1..MaxArmCount :
                     \E S \in RandomRuns(BaseInit(method, parameters, outcome_constraints),
                                         bootstrap_size) :
                         tuner' = Bootstrapped(BaseInit(method, parameters,
                                                        outcome_constraints), f, S)
             ELSE tuner' = BaseInit(method, parameters, outcome_constraints)
    /\ UNCHANGED <<data, multivariate, threshold, alpha, window_size, training_days,
                   direction, freq, MK_statistics, probe>>

\* RandomSearch.generate_evaluate_new_parameter_values (lines 529-546)
GenerateRandom ==
    /\ tuner.method = "RandomSearch"
    /\ tuner.err = "ok"
    /\ probe = NoProbe
    /\ Len(tuner.exp.trials) < MaxTrials
    /\ \E arm_count \in 1..MaxArmCount, f \in EvaluationFunctions :
          /\ tuner.evaluation_function \in {None, f}
          /\ IF RandomRuns(tuner, arm_count) = {}
             THEN /\ tuner' = tuner
                  /\ last' = [op |-> "generate", arm_count |-> arm_count,
                              outcome |-> "SearchSpaceExhausted"]
             ELSE \E S \in RandomRuns(tuner, arm_count) :
                     /\ tuner' = GeneratorRunForSearchMethod(
                                     [tuner EXCEPT !.generated = @ \cup S], f,
                                     SortedIndex(S)).obj
                     /\ last' = [op |-> "generate", arm_count |-> arm_count,
                                 outcome |-> GeneratorRunForSearchMethod(
                                     [tuner EXCEPT !.generated = @ \cup S], f,
                                     SortedIndex(S)).err]
    /\ UNCHANGED <<data, multivariate, threshold, alpha, window_size, training_days,
                   direction, freq, MK_statistics, probe>>

\* GridSearch.generate_evaluate_new_parameter_values (lines 442-457): every
\* point of the search space, whatever the arm_count
GenerateGrid ==
    /\ tuner.method = "GridSearch"
    /\ tuner.err = "ok"
    /\ probe = NoProbe
    /\ Len(tuner.exp.trials) < MaxTrials
    /\ \E arm_count \in {-1} \cup 1..MaxArmCount, f \in EvaluationFunctions :
          /\ tuner.evaluation_function \in {None, f}
          /\ tuner' = GeneratorRunForSearchMethod(tuner, f, SortedIndex(SearchPoints)).obj
          /\ last' = [op |-> "generate", arm_count |-> arm_count,
                      outcome |-> GeneratorRunForSearchMethod(
                                      tuner, f, SortedIndex(SearchPoints)).err]
    /\ UNCHANGED <<data, multivariate, threshold, alpha, window_size, training_days,
                   direction, freq, MK_statistics, probe>>

\* Experiment.fetch_data() (line 300): the records of every trial, fetched
\* from every metric; Data(df) numbers its rows 1, 2, ...
FetchData(t) ==
    Flatten([k \in 1..Len(t.exp.trials) |->
                TrialRecords(t.exp.metrics, t.exp.trials[k], t.evaluation_function)])

\* mean <= bound or mean >= bound (lines 280-289)
Holds(oc, mean) == IF oc.op = "LEQ" THEN mean <= oc.bound ELSE mean >= oc.bound

\* the boolean Series of one constraint (lines 282-283, 287-288): indexed by
\* the rows of the constraint's metric
BooleanIndex(df, oc) ==
    [l \in {k \in 1..Len(df) : df[k].metric_name = oc.metric} |-> Holds(oc, df[l].mean)]

\* x & y of two boolean Series: on the union of the two indexes, False where
\* one of them has no row
AndAligned(x, y) ==
    [l \in (DOMAIN x) \cup (DOMAIN y) |->
        l \in DOMAIN x /\ l \in DOMAIN y /\ x[l] /\ y[l]]

\* reduce(lambda x, y: x & y, boolean_indices) (line 290)
RECURSIVE ReduceAnd(_)
ReduceAnd(bs) ==
    IF Len(bs) = 1 THEN bs[1]
    ELSE AndAligned(ReduceAnd(SubSeq(bs, 1, Len(bs) - 1)), bs[Len(bs)])

Eligible(df, ocs) == ReduceAnd([i \in 1..Len(ocs) |-> BooleanIndex(df, ocs[i])])

\* lines 291-293
EligibleArmNames(df, ocs) ==
    {df[l].arm_name : l \in {k \in DOMAIN Eligible(df, ocs) : Eligible(df, ocs)[k]}}

\* filter_violating_arms (lines 275-296)
FilterViolatingArms(arms, df, ocs) ==
    {arm \in arms : arm.name \in EligibleArmNames(df, ocs)}

ArmNamesIn(rows) == {rows[i].arm_name : i \in 1..Len(rows)}

\* _repivot_dataframe (lines 230-247): one row per trial and arm.  On a frame
\* without rows, unstack leaves no "parameters" column and line 239 indexes
\* an empty list; whether pandas gets that far depends on its version
Repivoted(names) ==
    IF names = {}
    THEN {[err |-> "IndexError", arm_names |-> {}], [err |-> "ok", arm_names |-> {}]}
    ELSE {[err |-> "ok", arm_names |-> names]}

\* list_parameter_value_scores (lines 249-307): the possible results, as the
\* names of the arms of the returned frame
ListParameterValueScores(t, legit_arms_only) ==
    IF t.exp.metrics = <<>> THEN {[err |-> "ok", arm_names |-> {}]}
    ELSE IF t.outcome_constraints = <<>>
    THEN {[err |-> "ok", arm_names |-> ArmNamesIn(t.trial_data.rows)]}
    ELSE IF ~legit_arms_only THEN Repivoted(ArmNamesIn(t.trial_data.rows))
    ELSE IF t.evaluation_function = "text" THEN {[err |-> "TypeError", arm_names |-> {}]}
    ELSE Repivoted(ArmNamesIn(t.trial_data.rows)
                     \cap {arm.name : arm \in FilterViolatingArms(
                              ArmsOf(t.exp), FetchData(t), t.outcome_constraints)})

ListScores ==
    /\ tuner # NoTuner
    /\ tuner.err = "ok"
    /\ probe = NoProbe
    /\ \E legit_arms_only \in BOOLEAN :
          \E out \in ListParameterValueScores(tuner, legit_arms_only) :
              probe' = [fn |-> "list_parameter_value_scores",
                        legit_arms_only |-> legit_arms_only, out |-> out]
    /\ UNCHANGED <<tuner, data, multivariate, threshold, alpha, window_size,
                   training_days, direction, freq, MK_statistics, last>>

NextTuning == CreateSearchMethod \/ GenerateRandom \/ GenerateGrid \/ ListScores

SpecTuning == InitTuning /\ [][NextTuning]_vars

\* ================================================================== claims

RunDone == last.op = "detector"
SeriesLen == Len(data.index)
WholeSeries == training_days = NoneT
EngineFits == multivariate = (Len(data.cols) > 1)
Chronological(rows) == \A i \in 1..(Len(rows) - 1) : rows[i].ds < rows[i + 1].ds
PeriodOf(f) == IF f = None THEN 1 ELSE Period(f)
FinalTimestamp == data.index[SeriesLen]

\* ---- C1
\* C1: a whole-series run without freq over L > window_size points stores
\* exactly L - window_size records, strictly chronological.  (Stated for
\* window_size >= 1 and an engine that fits the data.)
C1_AsStated ==
    (RunDone /\ WholeSeries /\ freq = None /\ SeriesLen > window_size
       /\ window_size >= 1 /\ EngineFits)
        => /\ last.stored
           /\ Len(MK_statistics.rows) = SeriesLen - window_size
           /\ Chronological(MK_statistics.rows)

\* ---- C2
\* C2 as stated: a whole-series scan visits exactly the positions
\* window_size, ..., L - 1, whatever the freq.  (Stated for the scans that
\* complete, with window_size >= 2.)
C2_AsStated ==
    (RunDone /\ WholeSeries /\ last.stored /\ window_size >= 2)
        => last.anchors = [i \in 1..Max(0, SeriesLen - window_size) |->
                              data.index[window_size + i]]

\* C2 amended: a whole-series scan that completes has visited exactly the
\* positions window_size + P - 1, ..., L - 1, where P is the seasonal period
\* (P = 1 without freq): the first P - 1 points have no moving average and
\* are dropped before the scan.
C2_AnchorsAfterSeasonality ==
    (RunDone /\ WholeSeries /\ last.stored)
        => LET first == window_size + PeriodOf(freq) - 1
           IN  /\ last.anchors = [i \in 1..Max(0, SeriesLen - first) |-> data.index[first + i]]
               /\ Len(MK_statistics.rows) = Len(last.anchors)
               /\ \A i \in 1..Len(last.anchors) : MK_statistics.rows[i].ds = last.anchors[i]

C2_Witness ==
    /\ RunDone /\ WholeSeries /\ last.stored /\ freq = "weekly"
    /\ window_size >= 2
    /\ Len(last.anchors) >= 1
    /\ last.anchors[1] = window_size + 6

\* ---- C3
\* C3: an anchor-point run with training_days >= window_size and
\* L >= training_days stores exactly one record, anchored at the final
\* timestamp.  (Stated for window_size >= 1, no freq and an engine that fits
\* the data.)
C3_AsStated ==
    (RunDone /\ ~WholeSeries /\ training_days >= window_size /\ SeriesLen >= training_days
       /\ window_size >= 1 /\ freq = None /\ EngineFits)
        => /\ last.stored
           /\ Len(MK_statistics.rows) = 1
           /\ MK_statistics.rows[1].ds = FinalTimestamp

\* ---- C4
\* C4: in anchor-point mode the preprocessor is handed exactly the last
\* training_days observations of the series.  (Stated for window_size >= 2.)
C4_AsStated ==
    (RunDone /\ ~WholeSeries /\ last.preprocessed /\ window_size >= 2)
        => last.given = SubSeq(data.index, SeriesLen - training_days + 1, SeriesLen)

\* ---- C5
\* C5: a direction outside {up, down, both} makes the run fail before the
\* statistics of any window are computed.  (Stated for window_size >= 2.)
C5_DirectionFailsFast ==
    (RunDone /\ direction \notin ValidDirections /\ window_size >= 2)
        => last.outcome # "ok" /\ last.evaluated = 0

\* ---- C6
\* C6: a run that ends in a scan-level failure (series too short,
\* training_days < window_size, invalid direction) exposes no record it
\* computed: the stored statistics are as they were, or hold no record.
\* (Stated for window_size >= 2.)
ScanLevelFailures ==
    {"ValueError: window_size", "ValueError: training_days", "ValueError: length",
     "ValueError: direction"}

C6_FailedRunStoresNothing ==
    [][(last'.op = "detector" /\ last'.outcome \in ScanLevelFailures
          /\ window_size' >= 2)
          => (MK_statistics' = MK_statistics \/ MK_statistics'.rows = <<>>)]_vars

\* ---- C7
\* C7: the run is rejected with a length ValueError exactly when the series is
\* shorter than window_size (whole series), or training_days < window_size,
\* or the series is shorter than training_days (anchor point), and then
\* nothing has been preprocessed, evaluated or stored.
LengthErrors ==
    {"ValueError: window_size", "ValueError: training_days", "ValueError: length"}

C8_TrendLabel ==
    (probe.fn = "_p_value" /\ probe.done) =>
        LET h == 2500 * probe.k * probe.k > ZCritSq10k(alpha)
            up == h /\ probe.k > 0 /\ probe.j > threshold
            down == h /\ probe.k < 0 /\ probe.j < 0 - threshold
        IN  /\ probe.out.trend \in {"increasing", "decreasing", "no trend"}
            /\ (probe.out.trend = "increasing") <=> up
            /\ (probe.out.trend = "decreasing") <=> down
            /\ (probe.out.trend = "no trend") <=> (~up /\ ~down)

\* a significant z with a weak Tau is "no trend"
C8_Witness ==
    /\ probe.fn = "_p_value" /\ probe.done
    /\ alpha = 50 /\ threshold = 8
    /\ probe.k = 5 /\ probe.j = 8
    /\ probe.out.trend = "no trend"

\* ---- C9
\* the window of column c that multivariate_MKtest reads, and its valid rows
WindowRows ==
    (IF window_size = 0 \/ window_size >= SeriesLen THEN 1
     ELSE SeriesLen - window_size + 1)..SeriesLen
ValidRows(c) == {i \in WindowRows : data.cols[c][i] # NaN}
RisingPairs(c) ==
    {q \in ValidRows(c) \X ValidRows(c) : q[1] < q[2] /\ data.cols[c][q[1]] < data.cols[c][q[2]]}
FallingPairs(c) ==
    {q \in ValidRows(c) \X ValidRows(c) : q[1] < q[2] /\ data.cols[c][q[1]] > data.cols[c][q[2]]}
AllPairs(c) == {q \in ValidRows(c) \X ValidRows(c) : q[1] < q[2]}
PooledScore == SumSeq([c \in 1..Len(data.cols) |->
                          Cardinality(RisingPairs(c)) - Cardinality(FallingPairs(c))])
PooledPairs == SumSeq([c \in 1..Len(data.cols) |-> Cardinality(AllPairs(c))])
PooledVar18 == SumSeq([c \in 1..Len(data.cols) |->
                          VarS18([k \in 1..Cardinality(ValidRows(c)) |->
                              data.cols[c][CHOOSE i \in ValidRows(c) :
                                  Cardinality({j \in ValidRows(c) : j < i}) = k - 1]])])

\* C9: the overall Tau of multivariate_MKtest is (sum of the column scores) /
\* (sum of the column pair counts), and the overall p and trend come from the
\* z-score of the summed score and the summed variance.
C9_PooledTau ==
    (probe.fn = "multivariate_MKtest" /\ probe.done /\ probe.out.err = "ok") =>
        LET Tau == probe.out.rec.Tau.overall
            pooled == PValueTrend(ZScore(PooledScore, PooledVar18),
                                  [num |-> PooledScore, den |-> PooledPairs])
        IN  /\ Tau.den > 0
            /\ Tau.num * PooledPairs = PooledScore * Tau.den
            /\ probe.out.rec.p = pooled.p
            /\ probe.out.rec.trend_direction.overall = pooled.trend

\* two columns with different numbers of valid points, where the overall Tau
\* differs from the mean of the two column Taus
C9_Witness ==
    /\ probe.fn = "multivariate_MKtest" /\ probe.done /\ probe.out.err = "ok"
    /\ Cardinality(ValidRows(1)) = 3 /\ Cardinality(ValidRows(2)) = 2
    /\ LET Tau == probe.out.rec.Tau
       IN  /\ Tau.overall.num * PooledPairs = PooledScore * Tau.overall.den
           /\ 2 * Tau.overall.num * Tau.metrics[1].den * Tau.metrics[2].den
                # Tau.overall.den * (Tau.metrics[1].num * Tau.metrics[2].den
                                     + Tau.metrics[2].num * Tau.metrics[1].den)

\* ---- C10
\* C10: multivariate_MKtest always completes: a column with fewer than two
\* valid points gets Tau = None and trend = None, and an overall Tau, trend
\* and p are returned whatever the mix of such columns, all of them included.
C10_DegenerateColumnsNotFatal ==
    (probe.fn = "multivariate_MKtest" /\ probe.done) =>
        /\ probe.out.err = "ok"
        /\ \A c \in 1..Len(data.cols) :
              Cardinality(ValidRows(c)) < 2 =>
                  /\ probe.out.rec.Tau.metrics[c] = NoneTau
                  /\ probe.out.rec.trend_direction.metrics[c] = None


\* ---- C11
\* C11: on a window with fewer than two values after NaN removal MKtest never
\* divides by zero: it ends without ZeroDivisionError.
C11_NoDivisionByZero ==
    (probe.fn = "MKtest" /\ probe.out.called /\ Len(probe.out.x) < 2)
        => probe.out.res.err # "ZeroDivisionError"

\* ---- C12
\* the stored records whose label (the overall label for multivariate input)
\* matches the direction of the run
LabelMatches(rec) ==
    IF direction = "up" THEN LabelOf(rec, multivariate) = "increasing"
    ELSE IF direction = "down" THEN LabelOf(rec, multivariate) = "decreasing"
    ELSE LabelOf(rec, multivariate) # "no trend"
MatchingRows == {i \in 1..Len(MK_statistics.rows) : LabelMatches(MK_statistics.rows[i])}
NthMatching(k) ==
    CHOOSE i \in MatchingRows : Cardinality({j \in MatchingRows : j < i}) = k - 1

\* C12: a run with a valid direction that completed its scan returns exactly
\* the stored records whose label matches the direction, in their order, each
\* as a change point with start_time = end_time = the anchor and
\* confidence = 1 - p.
C12_SelectedChangePoints ==
    (RunDone /\ last.stored /\ direction \in ValidDirections)
        => /\ last.outcome = "ok"
           /\ Len(last.returned) = Cardinality(MatchingRows)
           /\ \A k \in 1..Len(last.returned) :
                 /\ last.returned[k].start_time = MK_statistics.rows[NthMatching(k)].ds
                 /\ last.returned[k].end_time = MK_statistics.rows[NthMatching(k)].ds
                 /\ last.returned[k].confidence = 1000 - MK_statistics.rows[NthMatching(k)].p

\* ---- C13
\* C13: the records a run stores, which get_MK_statistics returns, are the
\* same for every valid direction: a run on the same data with the same
\* window_size, training_days and freq and any other valid direction reaches
\* line 424 in the same cases and stores the same records.
C13_StatisticsIgnoreDirection ==
    (RunDone /\ direction \in ValidDirections)
        => \A d \in ValidDirections :
              /\ DetectorRun(data, multivariate, window_size, training_days, d, freq).stored
                    = last.stored
              /\ last.stored =>
                    DetectorRun(data, multivariate, window_size, training_days, d, freq).stats
                        = GetMKStatistics

\* a run whose direction keeps some of the stored records and drops others
C13_Witness ==
    /\ RunDone /\ last.stored /\ last.outcome = "ok" /\ direction \in ValidDirections
    /\ Len(last.returned) >= 1
    /\ Len(last.returned) < Len(GetMKStatistics)

\* ---- C14
EngineCalled == probe.fn = "MKtest" /\ probe.out.called
StrictlyIncreasing(x) == \A i \in 1..(Len(x) - 1) : x[i] < x[i + 1]
StrictlyDecreasing(x) == \A i \in 1..(Len(x) - 1) : x[i] > x[i + 1]
Constant(x) == \A i \in 1..(Len(x) - 1) : x[i] = x[i + 1]
Distinct(x) == \A i, j \in 1..Len(x) : i # j => x[i] # x[j]
PairCount(x) == (Len(x) * (Len(x) - 1)) \div 2
NoTiesVar18(x) == Len(x) * (Len(x) - 1) * (2 * Len(x) + 5)

\* C14: on a strictly increasing x of n >= 2 values _mk_score is n(n-1)/2 and
\* the Tau of MKtest is 1; on a strictly decreasing x they are -n(n-1)/2 and -1.
C14_MonotoneScore ==
    (EngineCalled /\ Len(probe.out.x) >= 2)
        => /\ StrictlyIncreasing(probe.out.x)
                => /\ probe.out.s = PairCount(probe.out.x)
                   /\ probe.out.res.err = "ok"
                   /\ probe.out.res.rec.Tau.den > 0
                   /\ probe.out.res.rec.Tau.num = probe.out.res.rec.Tau.den
           /\ StrictlyDecreasing(probe.out.x)
                => /\ probe.out.s = 0 - PairCount(probe.out.x)
                   /\ probe.out.res.err = "ok"
                   /\ probe.out.res.rec.Tau.den > 0
                   /\ probe.out.res.rec.Tau.num = 0 - probe.out.res.rec.Tau.den

C14_Witness ==
    /\ EngineCalled /\ Len(probe.out.x) >= 3
    /\ StrictlyDecreasing(probe.out.x)
    /\ probe.out.s = 0 - PairCount(probe.out.x)
    /\ probe.out.res.rec.Tau.num = 0 - probe.out.res.rec.Tau.den

\* ---- C15
\* C15: on a constant x of n >= 2 values the engine raises nothing and yields
\* score 0, z = 0, Tau = 0 and the label "no trend".
C15_ConstantNoTrend ==
    (EngineCalled /\ Len(probe.out.x) >= 2 /\ Constant(probe.out.x))
        => /\ probe.out.s = 0
           /\ probe.out.z.sgn = 0 /\ probe.out.z.sqnum = 0
           /\ probe.out.res.err = "ok"
           /\ probe.out.res.rec.Tau.num = 0 /\ probe.out.res.rec.Tau.den > 0
           /\ probe.out.res.rec.trend_direction = "no trend"

C15_Witness ==
    /\ EngineCalled /\ Len(probe.out.x) >= 3 /\ Constant(probe.out.x)
    /\ probe.out.res.err = "ok"
    /\ probe.out.res.rec.trend_direction = "no trend"
    /\ probe.out.res.rec.Tau.num = 0

\* ---- C16
SwappedLabel(l) ==
    IF l = "increasing" THEN "decreasing"
    ELSE IF l = "decreasing" THEN "increasing" ELSE l

\* C16: negating every value of x negates the score, z and Tau, keeps the
\* variance, the size of z and p, and swaps the labels "increasing" and
\* "decreasing" ("no trend" stays).
C16_NegationSwaps ==
    (EngineCalled /\ probe.negated)
        => /\ probe.out.s = 0 - probe.before.s
           /\ probe.out.var18 = probe.before.var18
           /\ probe.out.z.sgn = 0 - probe.before.z.sgn
           /\ probe.out.z.sqnum * probe.before.z.sqden
                 = probe.before.z.sqnum * probe.out.z.sqden
           /\ probe.out.res.err = probe.before.res.err
           /\ probe.out.res.err = "ok"
                => /\ probe.out.res.rec.Tau.num = 0 - probe.before.res.rec.Tau.num
                   /\ probe.out.res.rec.Tau.den = probe.before.res.rec.Tau.den
                   /\ probe.out.res.rec.p = probe.before.res.rec.p
                   /\ probe.out.res.rec.trend_direction
                         = SwappedLabel(probe.before.res.rec.trend_direction)

C16_Witness ==
    /\ EngineCalled /\ probe.negated
    /\ probe.before.res.err = "ok" /\ probe.out.res.err = "ok"
    /\ probe.before.res.rec.trend_direction = "increasing"
    /\ probe.out.res.rec.trend_direction = "decreasing"

\* ---- C17
\* C17: when x has tied values _var_s is the tie-corrected variance
\* (n(n-1)(2n+5) - the sum over the tie groups of t(t-1)(2t+5)) / 18.
C17_TieCorrectedVariance ==
    (EngineCalled /\ ~Distinct(probe.out.x))
        => probe.out.var18 = NoTiesVar18(probe.out.x) - probe.out.tie

\* ---- C18
\* C18: when the values of x are all distinct the tie term is 0, and _var_s,
\* the no-ties formula and the tie-corrected formula give the same value.
C18_DistinctNoTieTerm ==
    (EngineCalled /\ Distinct(probe.out.x))
        => /\ probe.out.tie = 0
           /\ probe.out.var18 = NoTiesVar18(probe.out.x)
           /\ probe.out.var18 = NoTiesVar18(probe.out.x) + probe.out.tie

C18_Witness ==
    /\ EngineCalled /\ Distinct(probe.out.x) /\ Len(probe.out.x) >= 3
    /\ probe.out.tie = 0
    /\ probe.out.var18 = NoTiesVar18(probe.out.x)

\* ---- C19
InUnitInterval(Tau) == Tau.den > 0 /\ 0 - Tau.den <= Tau.num /\ Tau.num <= Tau.den

\* C19: every stored record has p in [0, 1] and Tau in [-1, 1]; for
\* multivariate input so have the overall Tau and every per-metric Tau that
\* is not None.
C19_RecordRanges ==
    RunDone =>
        \A i \in 1..Len(MK_statistics.rows) :
            /\ MK_statistics.rows[i].p >= 0 /\ MK_statistics.rows[i].p <= 1000
            /\ IF multivariate
               THEN /\ InUnitInterval(MK_statistics.rows[i].Tau.overall)
                    /\ \A c \in 1..Len(MK_statistics.rows[i].Tau.metrics) :
                          MK_statistics.rows[i].Tau.metrics[c] # NoneTau
                              => InUnitInterval(MK_statistics.rows[i].Tau.metrics[c])
               ELSE InUnitInterval(MK_statistics.rows[i].Tau)

\* a multivariate record with a metric at Tau = 1, another at Tau = -1 and an
\* overall Tau strictly between
C19_Witness ==
    /\ RunDone /\ multivariate /\ Len(MK_statistics.rows) >= 1
    /\ \E i \in 1..Len(MK_statistics.rows) :
          /\ MK_statistics.rows[i].Tau.metrics[1].num = 0 - MK_statistics.rows[i].Tau.metrics[1].den
          /\ MK_statistics.rows[i].Tau.metrics[2].num = MK_statistics.rows[i].Tau.metrics[2].den
          /\ MK_statistics.rows[i].Tau.overall.num < MK_statistics.rows[i].Tau.overall.den
          /\ MK_statistics.rows[i].Tau.overall.num > 0 - MK_statistics.rows[i].Tau.overall.den
          /\ MK_statistics.rows[i].p <= 1000

\* ---- C20
\* the time point get_top_k_metrics looks at, and the stored record there
TopKCalled == probe.fn = "get_top_k_metrics"
TimePoint == IF training_days # NoneT THEN FinalTimestamp ELSE probe.time_point
EvaluatedAt(tp) == \E i \in 1..Len(MK_statistics.rows) : MK_statistics.rows[i].ds = tp
RecordAt(tp) ==
    MK_statistics.rows[CHOOSE i \in 1..Len(MK_statistics.rows) : MK_statistics.rows[i].ds = tp]
InOrder(a, b) ==
    IF direction = "down" THEN a.num * b.den <= b.num * a.den
    ELSE IF direction = "up" THEN a.num * b.den >= b.num * a.den
    ELSE AbsTau(a).num * b.den >= AbsTau(b).num * a.den

\* C20: on a multivariate detector whose run had a valid direction,
\* get_top_k_metrics at an evaluated time point returns rows of distinct
\* metrics with the Tau and trend of that record ("overall" is not one of
\* them), ordered by Tau ascending (down), Tau descending (up) or abs(Tau)
\* descending (both); they are the first top_k rows of that order: every
\* metric left out sorts no earlier than the rows returned, and all metrics
\* are returned for top_k = None.
C20_TopKMetrics ==
    (TopKCalled /\ multivariate /\ direction \in ValidDirections
       /\ MK_statistics.assigned /\ EvaluatedAt(TimePoint))
        => /\ probe.out.err = "ok"
           /\ Len(probe.out.rows) =
                 IF probe.top_k = NoneK THEN Len(data.cols)
                 ELSE Min(probe.top_k, Len(data.cols))
           /\ \A k \in 1..Len(probe.out.rows) :
                 /\ probe.out.rows[k].metric \in 1..Len(data.cols)
                 /\ probe.out.rows[k].ds = TimePoint
                 /\ probe.out.rows[k].Tau
                       = RecordAt(TimePoint).Tau.metrics[probe.out.rows[k].metric]
                 /\ probe.out.rows[k].trend_direction
                       = RecordAt(TimePoint).trend_direction.metrics[probe.out.rows[k].metric]
           /\ \A k, j \in 1..Len(probe.out.rows) :
                 /\ k # j => probe.out.rows[k].metric # probe.out.rows[j].metric
                 /\ k < j => InOrder(probe.out.rows[k].Tau, probe.out.rows[j].Tau)
           /\ \A c \in 1..Len(data.cols) :
                 (\A k \in 1..Len(probe.out.rows) : probe.out.rows[k].metric # c)
                     => \A k \in 1..Len(probe.out.rows) :
                           InOrder(probe.out.rows[k].Tau, RecordAt(TimePoint).Tau.metrics[c])

\* direction "both" on three metrics of Tau -1, 0 and 1, top_k = 2: the two
\* metrics of abs(Tau) = 1 are returned and the flat one is left out
C20_Witness ==
    /\ TopKCalled /\ multivariate /\ direction = "both" /\ MK_statistics.assigned
    /\ EvaluatedAt(TimePoint)
    /\ Len(data.cols) = 3 /\ probe.top_k = 2
    /\ probe.out.err = "ok"
    /\ Len(probe.out.rows) = 2
    /\ probe.out.rows[1].metric = 1 /\ probe.out.rows[1].Tau.num < 0
    /\ probe.out.rows[2].metric = 3 /\ probe.out.rows[2].Tau.num > 0

\* ---- C21
SameAbsTau(a, b) == AbsTau(a).num * b.den = AbsTau(b).num * a.den

\* C21: with direction "both", metrics of equal abs(Tau) are returned in
\* their column order.
C21_TiesInColumnOrder ==
    (TopKCalled /\ direction = "both" /\ probe.out.err = "ok")
        => \A k, j \in 1..Len(probe.out.rows) :
              (k < j /\ SameAbsTau(probe.out.rows[k].Tau, probe.out.rows[j].Tau))
                  => probe.out.rows[k].metric < probe.out.rows[j].metric

\* ---- C22
\* As stated: on the twenty-value series with window_size = 20 on the whole
\* series, detector() evaluates exactly one point, whose Tau lies strictly
\* between -1 and 1 and whose label is "no trend".
ExampleCase ==
    /\ RunDone
    /\ data = ExampleFrame
    /\ ~multivariate
    /\ WholeSeries
    /\ freq = None
    /\ direction \in ValidDirections

C22_AsStated ==
    (ExampleCase /\ window_size = Len(ExampleSeries))
        => /\ last.outcome = "ok"
           /\ last.evaluated = 1
           /\ Len(MK_statistics.rows) = 1
           /\ \A i \in 1..Len(MK_statistics.rows) :
                 /\ MK_statistics.rows[i].Tau.den > 0
                 /\ MK_statistics.rows[i].Tau.num < MK_statistics.rows[i].Tau.den
                 /\ MK_statistics.rows[i].Tau.num > 0 - MK_statistics.rows[i].Tau.den
                 /\ MK_statistics.rows[i].trend_direction = "no trend"

\* C22, as the code has it: a window of twenty values leaves no point after
\* it, so the run completes with no evaluated point, stores an empty record
\* set and returns no change point.  The single evaluated point of the
\* example, with Tau strictly between -1 and 1 and the label "no trend", is
\* the one of window_size = 19.
C22_WindowOneShorter ==
    /\ (ExampleCase /\ window_size = Len(ExampleSeries))
          => /\ last.outcome = "ok"
             /\ last.evaluated = 0
             /\ last.anchors = <<>>
             /\ MK_statistics.assigned
             /\ MK_statistics.rows = <<>>
             /\ last.returned = <<>>
    /\ (ExampleCase /\ window_size = Len(ExampleSeries) - 1)
          => /\ last.outcome = "ok"
             /\ last.evaluated = 1
             /\ Len(MK_statistics.rows) = 1
             /\ \A i \in 1..Len(MK_statistics.rows) :
                   /\ MK_statistics.rows[i].ds = FinalTimestamp
                   /\ MK_statistics.rows[i].Tau.den > 0
                   /\ MK_statistics.rows[i].Tau.num < MK_statistics.rows[i].Tau.den
                   /\ MK_statistics.rows[i].Tau.num > 0 - MK_statistics.rows[i].Tau.den
                   /\ MK_statistics.rows[i].trend_direction = "no trend"
             /\ last.returned = <<>>

C22_Witness ==
    /\ ExampleCase
    /\ window_size = Len(ExampleSeries) - 1
    /\ last.outcome = "ok"
    /\ Len(MK_statistics.rows) = 1

\* ---- C23
\* the frame detector() scans, and what _preprocessing hands to the engine at
\* the anchor t
UsedFrame == IF training_days # NoneT THEN LastDays(data, training_days) ELSE data
SmoothedFrame == Smoothing(RemoveSeasonality(UsedFrame, freq)).ts
WindowGiven(t) == Preprocessing(UpTo(SmoothedFrame, t), window_size).x

\* C23: at every anchor of a completed scan, in both modes and for every
\* freq, every column the engine is given holds exactly window_size
\* observations: never more, never fewer.  (Stated for window_size >= 1;
\* with window_size = 0 the slice ts[-0:] is the whole frame.)
C23_EngineInputIsWindow ==
    (RunDone /\ last.stored /\ window_size >= 1)
        => \A i \in 1..Len(last.anchors) :
              \A c \in 1..Len(data.cols) :
                  Len(WindowGiven(last.anchors[i])[c]) = window_size

\* ---- C24
Created == last.op = "create"
Offending(items) == {i \in 1..Len(items) : items[i] \in {"other", "empty"}}
FirstOffending(items) == CHOOSE i \in Offending(items) : \A k \in Offending(items) : i <= k
NothingCreated ==
    /\ ~tuner.search_space
    /\ ~tuner.exp.created /\ tuner.exp.trials = <<>>
    /\ ~tuner.trial_data.created
ValidationError(e) == tuner.err = e /\ NothingCreated

\* C24: every constructor validates the parameters argument before it
\* creates a search space, an experiment or a trial: a non-list ends in
\* TypeError and an empty list in ValueError; in a list, the first element
\* that is not a non-empty dict ends the call, in TypeError when it is not a
\* dict and in ValueError when it is an empty dict; in each case nothing has
\* been created.  A list of non-empty dicts passes validation: the call
\* either goes on to create the search space or ends in the refusal of
\* parameter_from_json.
C24_ValidationFirst ==
    Created =>
        IF ~last.parameters.isList THEN ValidationError("TypeError")
        ELSE IF last.parameters.items = <<>> THEN ValidationError("ValueError")
        ELSE IF Offending(last.parameters.items) # {}
        THEN IF last.parameters.items[FirstOffending(last.parameters.items)] = "other"
             THEN ValidationError("TypeError")
             ELSE ValidationError("ValueError")
        ELSE \/ tuner.search_space /\ tuner.exp.created /\ tuner.trial_data.created
             \/ tuner.err = "parameter_from_json" /\ NothingCreated

\* a list whose second element is an empty dict
C24_Witness ==
    /\ Created
    /\ last.parameters.isList
    /\ Len(last.parameters.items) = 2
    /\ last.parameters.items[1] = "parameter"
    /\ last.parameters.items[2] = "empty"
    /\ ValidationError("ValueError")

\* ---- C25
RowsOfTrial(rows, index) == {i \in 1..Len(rows) : rows[i].trial_index = index}
ArmNamesOfTrial(trial) == {trial.arms[a].name : a \in 1..Len(trial.arms)}

\* a call of RandomSearch.generate_evaluate_new_parameter_values that returned
RandomCallReturned ==
    /\ tuner # NoTuner
    /\ tuner.method = "RandomSearch"
    /\ probe' = probe
    /\ tuner' # tuner
    /\ last'.op = "generate"
    /\ last'.outcome = "ok"

\* C25: every call of RandomSearch.generate_evaluate_new_parameter_values
\* that returns has created exactly one new batch trial, the newest, with
\* arm_count arms no earlier trial has, and has run it; the trial data keeps
\* every earlier record, in place, and gains the records of the new trial
\* and no others.  So the number of evaluated candidates grows by arm_count
\* with each call, and calls whose arm_counts sum to k evaluate k candidates
\* however k is split.
C25_CallsAddUp ==
    [][RandomCallReturned =>
          /\ Len(tuner'.exp.trials) = Len(tuner.exp.trials) + 1
          /\ SubSeq(tuner'.exp.trials, 1, Len(tuner.exp.trials)) = tuner.exp.trials
          /\ Newest(tuner'.exp).index = Len(tuner.exp.trials)
          /\ Newest(tuner'.exp).ran
          /\ Cardinality(ArmNamesOfTrial(Newest(tuner'.exp))) = last'.arm_count
          /\ ArmNamesOfTrial(Newest(tuner'.exp)) \cap ArmNamesIn(tuner.trial_data.rows) = {}
          /\ SubSeq(tuner'.trial_data.rows, 1, Len(tuner.trial_data.rows))
                = tuner.trial_data.rows
          /\ \A i \in (Len(tuner.trial_data.rows) + 1)..Len(tuner'.trial_data.rows) :
                tuner'.trial_data.rows[i].trial_index = Newest(tuner'.exp).index
          /\ ArmNamesIn(tuner'.trial_data.rows)
                = ArmNamesIn(tuner.trial_data.rows) \cup ArmNamesOfTrial(Newest(tuner'.exp))
          /\ Cardinality(ArmNamesIn(tuner'.trial_data.rows))
                = Cardinality(ArmNamesIn(tuner.trial_data.rows)) + last'.arm_count
    ]_vars

\* three candidates evaluated by a call with arm_count 1 and a call with
\* arm_count 2
C25_Witness ==
    /\ tuner # NoTuner
    /\ tuner.method = "RandomSearch"
    /\ Len(tuner.exp.trials) = 2
    /\ Len(tuner.exp.trials[1].arms) = 1
    /\ Len(tuner.exp.trials[2].arms) = 2
    /\ last.op = "generate" /\ last.outcome = "ok"
    /\ Cardinality(ArmNamesIn(tuner.trial_data.rows)) = 3
    /\ RowsOfTrial(tuner.trial_data.rows, 0) # {}
    /\ RowsOfTrial(tuner.trial_data.rows, 1) # {}

\* ---- C26
\* the run of the same call on a detector built with multivariate = False
UnivariateRun ==
    DetectorRun(data, FALSE, window_size, training_days, direction, freq)

\* C26: the test detector() runs matches the data, whatever flag the
\* constructor was given: multivariate data is tested with the multivariate
\* test, and univariate data on a detector built with multivariate = True is
\* tested with the univariate test, the run ending as the run of a detector
\* built with multivariate = False ends, with the same records.  (Stated for
\* the calls that complete with at least one record on the detector built
\* with multivariate = False.)
C26_TestMatchesData ==
    RunDone =>
        /\ Len(data.cols) > 1 => multivariate
        /\ (Len(data.cols) = 1 /\ multivariate /\ UnivariateRun.outcome = "ok"
                /\ UnivariateRun.stats # <<>>)
              => /\ last.outcome = UnivariateRun.outcome
                 /\ last.stored = UnivariateRun.stored
                 /\ last.stats = UnivariateRun.stats
                 /\ last.returned = UnivariateRun.returned

\* ---- C27
\* C27: after any sequence of detector() calls, failed or not, the direction
\* and training_days get_top_k_metrics reads are those of the call that
\* assigned the stored MK_statistics, and a get_top_k_metrics that gets to
\* the sort takes one of its three branches.
C27_ConfigurationOfStoredRun ==
    /\ (RunDone /\ MK_statistics.assigned)
          => last.made_by = [direction |-> direction, training_days |-> training_days]
    /\ TopKCalled => probe.out.err # "UnboundLocalError"

\* ---- C28
ListCalled == probe.fn = "list_parameter_value_scores"
MeansOf(name, metric) ==
    {tuner.trial_data.rows[i].mean : i \in
        {k \in 1..Len(tuner.trial_data.rows) :
            /\ tuner.trial_data.rows[k].arm_name = name
            /\ tuner.trial_data.rows[k].metric_name = metric}}
Satisfies(name, oc) ==
    /\ MeansOf(name, oc.metric) # {}
    /\ \A mean \in MeansOf(name, oc.metric) :
          IF oc.op = "LEQ" THEN mean <= oc.bound ELSE mean >= oc.bound
LegitArms ==
    {name \in ArmNamesIn(tuner.trial_data.rows) :
        \A i \in 1..Len(tuner.outcome_constraints) :
            Satisfies(name, tuner.outcome_constraints[i])}

\* C28: with outcome constraints and legit_arms_only = True,
\* list_parameter_value_scores returns exactly the evaluated arms whose means
\* satisfy every constraint, for one constraint and for several.  (Stated
\* for the calls where at least one arm satisfies them all.)
C28_ExactlyTheLegitArms ==
    (ListCalled /\ probe.legit_arms_only /\ tuner.outcome_constraints # <<>>
        /\ LegitArms # {})
        => /\ probe.out.err = "ok"
           /\ probe.out.arm_names = LegitArms

\* the same for a single constraint, and for two constraints on one metric
OneMetricConstrained ==
    \A i \in 1..Len(tuner.outcome_constraints) :
        tuner.outcome_constraints[i].metric = tuner.outcome_constraints[1].metric
C28_OneMetric ==
    (ListCalled /\ probe.legit_arms_only /\ tuner.outcome_constraints # <<>>
        /\ LegitArms # {} /\ OneMetricConstrained)
        => /\ probe.out.err = "ok"
           /\ probe.out.arm_names = LegitArms

====
